---- MODULE Spec2Model ----
(***************************************************************************)
(* Timetable generation service: the dataset upload, the CP-SAT based      *)
(* generate_timetable of app/scheduler.py, the POST /timetable/generate    *)
(* handler that guards it with an asyncio.Lock, and readers of the         *)
(* Timetable table (GET /timetable).                                       *)
(*                                                                         *)
(* A dataset is a record of four sequences of dict-like records; an        *)
(* optional key of a dict is a field that is present or not in the record, *)
(* read with Get as dict.get reads it.  Display names are modelled by the  *)
(* record's original id.  Identifiers are unique within a collection.      *)
(*                                                                         *)
(* The external CP-SAT engine is modelled by its contract: it returns      *)
(* OPTIMAL or FEASIBLE with any assignment satisfying every constraint the *)
(* code added, INFEASIBLE only when none exists, and UNKNOWN whenever the  *)
(* time limit elapses first.                                               *)
(*                                                                         *)
(* Steps of different handlers interleave freely: nothing is assumed of    *)
(* the event loop's scheduling beyond what _generate_lock enforces.        *)
(***************************************************************************)
EXTENDS Integers, Sequences, FiniteSets, TLC

\* ---------------------------------------------------------------- bounds
MaxRequests == 2
MaxFaculties == 2
MaxCourses == 2
MaxRooms == 2
MaxSlots == 2

\* ------------------------------------------------------- program constants
DefaultSize == 30
DefaultCapacity == 50
DefaultSessions == 1
DefaultFaculty == 1

VARIABLES
    dataFile,    \* data.json: <<>> when missing, <<dataset>> otherwise
    store,       \* rows of the Timetable table (committed state)
    exports,     \* exports/timetable.json and exports/timetable.xlsx
    lock,        \* _generate_lock: 0 when free, else the request holding it
    rows,        \* what the last GET /timetable returned
    pc,          \* position of each POST /timetable/generate request
    raw,         \* generate_timetable: raw_data, <<>> before the load
    status,      \* generate_timetable: status of solver.Solve
    sol,         \* generate_timetable: keys of assign whose variable is 1
    entries,     \* generate_timetable: db_entries
    records,     \* generate_timetable: timetable_records
    result,      \* what generate_timetable gave its caller
    site,        \* the return statement generate_timetable left through
    startStore,  \* store when generate_timetable was entered (history)
    response     \* HTTP status the handler answered with, 0 before

vars == <<dataFile, store, exports, lock, rows, pc, raw, status, sol, entries,
          records, result, site, startStore, response>>

Requests == 1..MaxRequests

\* ------------------------------------------------------------- datasets
EmptyRec == [x \in {} |-> 0]

\* dict.get(k, default)
Get(d, k, default) == IF k \in DOMAIN d THEN d[k] ELSE default

\* Input-supplied identifier of the k-th record of a collection: identifiers
\* are externally assigned and are not the record's position.
OrigId(k) == 10 * k

\* The optional keys of a course and of a classroom, absent or given.  A
\* course without "size" has the default size, which fits a classroom without
\* "capacity" and no classroom of capacity 20; a course of size 100 fits none.
\* The faculty a course names is the last one the bounds allow: it resolves
\* only when the dataset holds that many faculties.
SlotOptions == {EmptyRec, "requiredSlots" :> 2}
SizeOptions == {"size" :> 100}
CapacityOptions == {"capacity" :> 20, EmptyRec}
FacultyOptions == {EmptyRec, "faculty_id" :> OrigId(MaxFaculties)}

SeqsUpTo(S, n) == UNION {[1..m -> S] : m \in 0..n}

WithIds(attrs) ==
    [k \in DOMAIN attrs |-> [id |-> OrigId(k), name |-> OrigId(k)] @@ attrs[k]]

\* A course of default size with either number of sessions and either
\* faculty option, or an oversized course.
CourseAttrs ==
    {a @@ c : a \in SlotOptions, c \in FacultyOptions} \cup SizeOptions

\* The body of POST /upload-dataset: four lists of dicts.
MakeDataset(nf, nt, cs, rs) ==
    [faculties  |-> WithIds([k \in 1..nf |-> EmptyRec]),
     courses    |-> WithIds(cs),
     classrooms |-> WithIds(rs),
     timeslots  |-> [k \in 1..nt |-> [id |-> OrigId(k), label |-> OrigId(k)]]]

\* ------------------------------------------------------- _normalize_data
\* {x["id"]: idx + 1 for idx, x in enumerate(xs)}
IdMap(xs) ==
    [i \in {xs[k].id : k \in DOMAIN xs} |->
        CHOOSE k \in DOMAIN xs :
            xs[k].id = i /\ \A j \in DOMAIN xs : xs[j].id = i => j <= k]

NormalizeData(data) ==
    LET faculty_id_map   == IdMap(data.faculties)
        course_id_map    == IdMap(data.courses)
        classroom_id_map == IdMap(data.classrooms)
        timeslot_id_map  == IdMap(data.timeslots)
    IN  [faculties |->
            [k \in DOMAIN data.faculties |->
                [id |-> faculty_id_map[data.faculties[k].id],
                 name |-> data.faculties[k].name,
                 original_id |-> data.faculties[k].id]],
         courses |->
            [k \in DOMAIN data.courses |->
                LET c == data.courses[k]
                IN  [id |-> course_id_map[c.id],
                     name |-> c.name,
                     sessions_per_week |-> Get(c, "requiredSlots", DefaultSessions),
                     size |-> Get(c, "size", DefaultSize),
                     faculty_id |->
                        IF "faculty_id" \in DOMAIN c
                           /\ c.faculty_id \in DOMAIN faculty_id_map
                        THEN faculty_id_map[c.faculty_id]
                        ELSE DefaultFaculty,
                     original_id |-> c.id]],
         classrooms |->
            [k \in DOMAIN data.classrooms |->
                [id |-> classroom_id_map[data.classrooms[k].id],
                 name |-> data.classrooms[k].name,
                 capacity |-> Get(data.classrooms[k], "capacity", DefaultCapacity),
                 original_id |-> data.classrooms[k].id]],
         timeslots |->
            [k \in DOMAIN data.timeslots |->
                [id |-> timeslot_id_map[data.timeslots[k].id],
                 label |-> data.timeslots[k].label,
                 original_id |-> data.timeslots[k].id]],
         id_mappings |->
            [faculty |-> faculty_id_map, course |-> course_id_map,
             classroom |-> classroom_id_map, timeslot |-> timeslot_id_map]]

Range(f) == {f[k] : k \in DOMAIN f}

\* ------------------------------------------------- the CP-SAT model built
\* if not (courses and timeslots and classrooms)
InsufficientData(data) ==
    data.courses = <<>> \/ data.timeslots = <<>> \/ data.classrooms = <<>>

\* The keys of assign: one boolean variable per capacity-feasible triple.
BuildAssign(data) ==
    {<<c.id, t.id, r.id>> :
        <<c, t, r>> \in {x \in Range(data.courses) \X Range(data.timeslots)
                                \X Range(data.classrooms) :
                            x[3].capacity >= x[1].size}}

VarsForCourse(assign, cid) == {k \in assign : k[1] = cid}

\* The early return tested for the first course only.
CoursesCheckedFirstOnly(data) == IF data.courses = <<>> THEN {} ELSE {1}

\* Constraint 1 loop: the courses, in input order, that reach "if not
\* vars_for_course".
CoursesChecked(data) == DOMAIN data.courses

NoValidTimeslots(data, assign) ==
    \E i \in CoursesChecked(data) : VarsForCourse(assign, data.courses[i].id) = {}

\* The sum bounded from above only.
CourseCoveredAtMost(c, chosen) == Cardinality(chosen) <= c.sessions_per_week

\* Constraint 1, for one course: sum(vars_for_course) == sessions_per_week
CourseCovered(c, chosen) == Cardinality(chosen) = c.sessions_per_week

\* vars_here collected per course as well as per (timeslot, classroom).
RoomExclusivePerCourse(data, S) ==
    \A c \in Range(data.courses), t \in Range(data.timeslots),
       r \in Range(data.classrooms) :
        Cardinality({k \in S : k[1] = c.id /\ k[2] = t.id /\ k[3] = r.id}) <= 1

\* Constraint 2: sum(vars_here) <= 1 for every (timeslot, classroom)
RoomExclusive(data, S) ==
    \A t \in Range(data.timeslots), r \in Range(data.classrooms) :
        Cardinality({k \in S : k[2] = t.id /\ k[3] = r.id}) <= 1

\* course_to_fac.get(cid)
CourseToFac(data, cid) ==
    LET i == CHOOSE i \in DOMAIN data.courses :
                data.courses[i].id = cid
                /\ \A j \in DOMAIN data.courses : data.courses[j].id = cid => j <= i
    IN  data.courses[i].faculty_id

\* course_to_fac compared with the faculty's original id.
FacultyExclusiveByOriginalId(data, S) ==
    \A f \in Range(data.faculties), t \in Range(data.timeslots) :
        Cardinality({k \in S : k[2] = t.id
                                /\ CourseToFac(data, k[1]) = f.original_id}) <= 1

\* Constraint 3: sum(vars_here) <= 1 for every (faculty, timeslot)
FacultyExclusive(data, S) ==
    \A f \in Range(data.faculties), t \in Range(data.timeslots) :
        Cardinality({k \in S : k[2] = t.id /\ CourseToFac(data, k[1]) = f.id}) <= 1

\* Assignments of the variables of courses 1..n that satisfy every
\* constraint the model holds on them.  The three constraints are tested on
\* each course's own variables first: a subset of an assignment that
\* satisfies an at-most-one constraint satisfies it too.
RECURSIVE Partial(_, _, _)
Partial(data, assign, n) ==
    IF n = 0 THEN {{}}
    ELSE LET c == data.courses[n]
             mine == {ch \in SUBSET VarsForCourse(assign, c.id) :
                        /\ CourseCovered(c, ch)
                        /\ RoomExclusive(data, ch)
                        /\ FacultyExclusive(data, ch)}
         IN  {S \in {A \cup B : A \in Partial(data, assign, n - 1), B \in mine} :
                RoomExclusive(data, S) /\ FacultyExclusive(data, S)}

\* Every assignment solver.Solve may report as a solution.
Solutions(data, assign) == Partial(data, assign, Len(data.courses))

\* status == cp_model.OPTIMAL or status == cp_model.FEASIBLE
IsSolved(st) == st = "OPTIMAL" \/ st = "FEASIBLE"

\* What solver.Solve(model) may return within the time limit: a model
\* without objective is reported OPTIMAL as soon as a solution is found.
SolverOutcomes(data, assign) ==
    LET found == Solutions(data, assign)
    IN  {[status |-> "OPTIMAL", values |-> S] : S \in found}
        \cup (IF found = {} THEN {[status |-> "INFEASIBLE", values |-> {}]} ELSE {})
        \cup {[status |-> "UNKNOWN", values |-> {}]}

\* ------------------------------------------------- extraction (175-196)
\* next(c for c in courses if c["id"] == cid)
FirstWithId(xs, i) ==
    xs[CHOOSE k \in DOMAIN xs : xs[k].id = i /\ \A j \in DOMAIN xs : xs[j].id = i => k <= j]

HasId(xs, i) == \E k \in DOMAIN xs : xs[k].id = i

\* next(f for f in faculties if ...) finds no faculty: StopIteration
ExtractRaises(data, S) ==
    \E k \in S : ~HasId(data.faculties, FirstWithId(data.courses, k[1]).faculty_id)

DbEntry(data, k) ==
    [course_id |-> k[1],
     faculty_id |-> FirstWithId(data.courses, k[1]).faculty_id,
     timeslot_id |-> k[2],
     classroom_id |-> k[3]]

DbEntries(data, S) == {DbEntry(data, k) : k \in S}

TimetableRecords(data, S) ==
    {[course |-> FirstWithId(data.courses, k[1]).name,
      faculty |-> FirstWithId(data.faculties,
                              FirstWithId(data.courses, k[1]).faculty_id).name,
      classroom |-> FirstWithId(data.classrooms, k[3]).name,
      timeslot |-> FirstWithId(data.timeslots, k[2]).label] : k \in S}

\* ------------------------------------------------------------ the handler
NoExports == [json |-> <<>>, xlsx |-> <<>>]

\* The try body of generate_timetable_endpoint after the lock is released:
\* what it raises or returns.
TryBody(res) ==
    IF res = "raise" THEN [raised |-> TRUE, code |-> 0]
    ELSE IF res = "true" THEN [raised |-> FALSE, code |-> 200]
    ELSE [raised |-> TRUE, code |-> 400]

\* except Exception as e: raise HTTPException(status_code=500, ...)
\* HTTPException is an Exception, so the 400 raised in the try body is caught.
EndpointStatus(res) ==
    IF TryBody(res).raised THEN 500 ELSE TryBody(res).code

Data(r) == NormalizeData(raw[r][1])

Return(r, value, where) ==
    /\ result' = [result EXCEPT ![r] = value]
    /\ site' = [site EXCEPT ![r] = where]
    /\ pc' = [pc EXCEPT ![r] = "release"]

\* POST /timetable/generate arrives.
Post(r) ==
    /\ pc[r] = "idle"
    /\ pc' = [pc EXCEPT ![r] = "acquire"]
    /\ UNCHANGED <<dataFile, store, exports, lock, rows, raw, status, sol, entries,
                   records, result, site, startStore, response>>

\* generate_timetable(30) called without the lock being taken.
AcquireUnlocked(r) ==
    /\ pc[r] = "acquire"
    /\ lock' = r
    /\ startStore' = [startStore EXCEPT ![r] = store]
    /\ pc' = [pc EXCEPT ![r] = "load"]
    /\ UNCHANGED <<dataFile, store, exports, rows, raw, status, sol, entries,
                   records, result, site, response>>

\* async with _generate_lock, then the call of generate_timetable(30)
Acquire(r) ==
    /\ pc[r] = "acquire"
    /\ lock = 0
    /\ lock' = r
    /\ startStore' = [startStore EXCEPT ![r] = store]
    /\ pc' = [pc EXCEPT ![r] = "load"]
    /\ UNCHANGED <<dataFile, store, exports, rows, raw, status, sol, entries,
                   records, result, site, response>>

\* generate_timetable up to the call of the solver: the check that data.json
\* exists, json.load, _normalize_data, the emptiness check, the variables
\* and constraint 1 with its early return
Load(r) ==
    /\ pc[r] = "load"
    /\ IF dataFile = <<>>
       THEN Return(r, "false", "data_file_not_found") /\ UNCHANGED raw
       ELSE /\ raw' = [raw EXCEPT ![r] = dataFile]
            /\ LET data == NormalizeData(dataFile[1])
               IN  IF InsufficientData(data)
                   THEN Return(r, "false", "insufficient_data")
                   ELSE IF NoValidTimeslots(data, BuildAssign(data))
                   THEN Return(r, "false", "no_valid_timeslots")
                   ELSE /\ pc' = [pc EXCEPT ![r] = "solve"]
                        /\ UNCHANGED <<result, site>>
    /\ UNCHANGED <<dataFile, store, exports, lock, rows, status, sol, entries,
                   records, startStore, response>>

\* status = solver.Solve(model) and the branch on it
Solve(r) ==
    /\ pc[r] = "solve"
    /\ \E o \in LET d == Data(r) IN SolverOutcomes(d, BuildAssign(d)) :
        /\ status' = [status EXCEPT ![r] = o.status]
        /\ IF IsSolved(o.status)
           THEN /\ sol' = [sol EXCEPT ![r] = o.values]
                /\ pc' = [pc EXCEPT ![r] = "clear"]
                /\ UNCHANGED <<result, site>>
           ELSE Return(r, "false", "no_feasible_solution") /\ UNCHANGED sol
    /\ UNCHANGED <<dataFile, store, exports, lock, rows, raw, entries, records,
                   startStore, response>>

\* _clear_timetable(): unlink the exports, delete every row, commit; then
\* the loop over assign.items() that fills timetable_records and db_entries
Clear(r) ==
    /\ pc[r] = "clear"
    /\ exports' = NoExports
    /\ store' = {}
    /\ LET d == Data(r)
       IN  IF ExtractRaises(d, sol[r])
           THEN Return(r, "raise", "StopIteration") /\ UNCHANGED <<entries, records>>
           ELSE /\ entries' = [entries EXCEPT ![r] = DbEntries(d, sol[r])]
                /\ records' = [records EXCEPT ![r] = TimetableRecords(d, sol[r])]
                /\ pc' = [pc EXCEPT ![r] = "commit"]
                /\ UNCHANGED <<result, site>>
    /\ UNCHANGED <<dataFile, lock, rows, raw, status, sol, startStore, response>>

\* session.add(...) for every entry, session.commit()
Commit(r) ==
    /\ pc[r] = "commit"
    /\ store' = store \cup entries[r]
    /\ pc' = [pc EXCEPT ![r] = "export"]
    /\ UNCHANGED <<dataFile, exports, lock, rows, raw, status, sol, entries,
                   records, result, site, startStore, response>>

\* json.dump, df.to_excel, return True
Export(r) ==
    /\ pc[r] = "export"
    /\ exports' = [json |-> <<records[r]>>, xlsx |-> <<records[r]>>]
    /\ Return(r, "true", "success")
    /\ UNCHANGED <<dataFile, store, lock, rows, raw, status, sol, entries,
                   records, startStore, response>>

\* leaving "async with _generate_lock"; the frame of generate_timetable is gone
Release(r) ==
    /\ pc[r] = "release"
    /\ lock' = 0
    /\ raw' = [raw EXCEPT ![r] = <<>>]
    /\ sol' = [sol EXCEPT ![r] = {}]
    /\ entries' = [entries EXCEPT ![r] = {}]
    /\ records' = [records EXCEPT ![r] = {}]
    /\ pc' = [pc EXCEPT ![r] = "respond"]
    /\ UNCHANGED <<dataFile, store, exports, rows, status, result, site,
                   startStore, response>>

\* the rest of the try body and the except clause
Respond(r) ==
    /\ pc[r] = "respond"
    /\ response' = [response EXCEPT ![r] = EndpointStatus(result[r])]
    /\ pc' = [pc EXCEPT ![r] = "done"]
    /\ UNCHANGED <<dataFile, store, exports, lock, rows, raw, status, sol, entries,
                   records, result, site, startStore>>

\* GET /timetable: select(Timetable), run in a worker thread
GetTimetable ==
    /\ rows' = store
    /\ UNCHANGED <<dataFile, store, exports, lock, pc, raw, status, sol, entries,
                   records, result, site, startStore, response>>

\* POST /upload-dataset
UploadDataset(d) ==
    /\ dataFile' = <<d>>
    /\ UNCHANGED <<store, exports, lock, rows, pc, raw, status, sol, entries,
                   records, result, site, startStore, response>>

\* Datasets uploaded to the running service.
ScenarioA ==
    MakeDataset(1, 2, <<("requiredSlots" :> 2) @@ ("size" :> 10)>>,
                <<"capacity" :> 20, "capacity" :> 20>>)
ScenarioB == MakeDataset(1, 1, <<"size" :> 100>>, <<EmptyRec>>)
ScenarioC ==
    MakeDataset(1, 1, <<"size" :> 10, "size" :> 10>>,
                <<"capacity" :> 20, "capacity" :> 20>>)
NoFaculties == MakeDataset(0, 1, <<"size" :> 10>>, <<"capacity" :> 20>>)
NoCourses == MakeDataset(1, 1, <<>>, <<"capacity" :> 20>>)

Uploads == {ScenarioA, ScenarioB, ScenarioC, NoFaculties, NoCourses}

InitRest ==
    /\ store = {}
    /\ exports = NoExports
    /\ lock = 0
    /\ rows = {}
    /\ pc = [r \in Requests |-> "idle"]
    /\ raw = [r \in Requests |-> <<>>]
    /\ status = [r \in Requests |-> "NOT_RUN"]
    /\ sol = [r \in Requests |-> {}]
    /\ entries = [r \in Requests |-> {}]
    /\ records = [r \in Requests |-> {}]
    /\ result = [r \in Requests |-> "none"]
    /\ site = [r \in Requests |-> "none"]
    /\ startStore = [r \in Requests |-> {}]
    /\ response = [r \in Requests |-> 0]

Init == dataFile = <<>> /\ InitRest

\* One step of generate_timetable.
Generate(r) == Load(r) \/ Solve(r) \/ Clear(r) \/ Commit(r) \/ Export(r)

Handler(r) == Post(r) \/ Acquire(r) \/ Generate(r) \/ Release(r) \/ Respond(r)

Next ==
    \/ \E r \in Requests : Handler(r)
    \/ GetTimetable
    \/ \E d \in Uploads : UploadDataset(d)

Spec == Init /\ [][Next]_vars

\* generate_timetable called once, by request 1 holding the lock, on every
\* dataset within the bounds.
InitSolve ==
    /\ \E nf \in 0..MaxFaculties, nt \in 0..MaxSlots,
          rs \in SeqsUpTo(CapacityOptions, MaxRooms),
          cs \in SeqsUpTo(CourseAttrs, MaxCourses) :
            dataFile = <<MakeDataset(nf, nt, cs, rs)>>
    /\ store = {}
    /\ exports = NoExports
    /\ lock = 1
    /\ rows = {}
    /\ pc = [r \in Requests |-> IF r = 1 THEN "load" ELSE "idle"]
    /\ raw = [r \in Requests |-> <<>>]
    /\ status = [r \in Requests |-> "NOT_RUN"]
    /\ sol = [r \in Requests |-> {}]
    /\ entries = [r \in Requests |-> {}]
    /\ records = [r \in Requests |-> {}]
    /\ result = [r \in Requests |-> "none"]
    /\ site = [r \in Requests |-> "none"]
    /\ startStore = [r \in Requests |-> {}]
    /\ response = [r \in Requests |-> 0]

NextSolve == Generate(1)

SpecSolve == InitSolve /\ [][NextSolve]_vars

\* ------------------------------------------------------------- properties
\* r is executing generate_timetable.
InGenerate(r) == pc[r] \in {"load", "solve", "clear", "commit", "export"}

\* generate_timetable has returned to r's handler, its locals still at hand.
Returned(r) == pc[r] = "release"

\* r's call returned True: a Solved result.
Solved(r) == Returned(r) /\ result[r] = "true"

\* r's call failed: it returned False or raised.
Failed(r) == Returned(r) /\ result[r] \in {"false", "raise"}

\* C1: whenever a solve has failed for any reason, the Timetable table holds
\* exactly the rows it held when that solve started.
C1_FailureLeavesStore ==
    \A r \in Requests : Failed(r) => store = startStore[r]

\* C2: a GET /timetable that interleaves with a running solve returns either
\* the complete previous schedule or the complete new one, never the cleared
\* table.
C2_NoPartialRead ==
    [][GetTimetable =>
        \A r \in Requests :
            /\ pc[r] \in {"load", "solve"} => rows' = startStore[r]
            /\ pc[r] \in {"clear", "commit", "export"} =>
                    \/ rows' = startStore[r]
                    \/ rows' = DbEntries(Data(r), sol[r])]_vars

\* C3: at most one execution of generate_timetable is in flight at any time,
\* and it is the one of the request holding the lock.
C3_OneSolveInFlight ==
    /\ Cardinality({r \in Requests : InGenerate(r)}) <= 1
    /\ \A r \in Requests : InGenerate(r) => lock = r

C3_Witness ==
    \E r1, r2 \in Requests :
        r1 # r2 /\ pc[r1] \in {"clear", "commit"} /\ pc[r2] = "acquire"

\* C4: in a Solved result, every course of the normalized input has exactly
\* sessions_per_week emitted entries.
C4_Coverage ==
    \A r \in Requests :
        Solved(r) =>
            LET d == Data(r)
            IN  \A c \in Range(d.courses) :
                    Cardinality({e \in entries[r] : e.course_id = c.id})
                        = c.sessions_per_week

C4_Witness ==
    /\ Solved(1)
    /\ Len(Data(1).courses) = 2
    /\ \E c \in Range(Data(1).courses) : c.sessions_per_week = 2
    /\ store = entries[1]

\* C5: in a Solved result, no faculty (the default faculty 1 included) has two
\* emitted entries in the same timeslot.
C5_FacultyExclusivity ==
    \A r \in Requests :
        Solved(r) =>
            LET d == Data(r)
            IN  \A t \in Range(d.timeslots) :
                    \A f \in {c.faculty_id : c \in Range(d.courses)}
                             \cup {x.id : x \in Range(d.faculties)} :
                        Cardinality({e \in entries[r] :
                                        /\ e.timeslot_id = t.id
                                        /\ CourseToFac(d, e.course_id) = f}) <= 1

\* Two courses without a faculty reference, both defaulted to faculty 1, in a
\* Solved result.
C5_Witness ==
    /\ Solved(1)
    /\ Len(raw[1][1].courses) = 2
    /\ \A c \in Range(raw[1][1].courses) : "faculty_id" \notin DOMAIN c
    /\ \A c \in Range(Data(1).courses) : c.faculty_id = DefaultFaculty
    /\ Cardinality(entries[1]) >= 2

\* C6: in a Solved result, no (timeslot, classroom) pair has two emitted
\* entries.
C6_RoomExclusivity ==
    \A r \in Requests :
        Solved(r) =>
            LET d == Data(r)
            IN  \A t \in Range(d.timeslots), c \in Range(d.classrooms) :
                    Cardinality({e \in entries[r] :
                                    e.timeslot_id = t.id /\ e.classroom_id = c.id}) <= 1

\* Two courses held in the same timeslot, in different rooms.
C6_Witness ==
    /\ Solved(1)
    /\ \E e1, e2 \in entries[1] :
        /\ e1.course_id # e2.course_id
        /\ e1.timeslot_id = e2.timeslot_id
        /\ e1.classroom_id # e2.classroom_id

\* C7: a solve that timed out gives its caller a value distinct from the one
\* an infeasible solve gives.
C7_TimeoutDistinct ==
    \A r1, r2 \in Requests :
        /\ pc[r1] \in {"release", "respond", "done"}
        /\ pc[r2] \in {"release", "respond", "done"}
        /\ status[r1] = "UNKNOWN"
        /\ status[r2] = "INFEASIBLE"
        => result[r1] # result[r2]

\* Some course's enrollment exceeds the capacity of every classroom.
HasUncoverableCourse(d) ==
    \E c \in Range(d.courses) :
        \A room \in Range(d.classrooms) :
            Get(room, "capacity", DefaultCapacity) < Get(c, "size", DefaultSize)

\* C8: with an uncoverable course anywhere in the input, the solve never
\* reaches the solver and returns False from a return statement that precedes
\* it: the one of constraint 1 whenever the three collections are non-empty.
C8_UncoverableFailsAtBuild ==
    \A r \in Requests :
        raw[r] # <<>> /\ HasUncoverableCourse(raw[r][1]) =>
            /\ pc[r] \notin {"solve", "clear", "commit", "export"}
            /\ status[r] = "NOT_RUN"
            /\ Returned(r) =>
                /\ result[r] = "false"
                /\ site[r] \in {"insufficient_data", "no_valid_timeslots"}
                /\ ~InsufficientData(Data(r)) => site[r] = "no_valid_timeslots"

\* The second of two courses is the uncoverable one; the first fits a room.
C8_Witness ==
    /\ Returned(1)
    /\ raw[1] # <<>>
    /\ Len(raw[1][1].courses) = 2
    /\ ~HasUncoverableCourse([raw[1][1] EXCEPT !.courses = <<raw[1][1].courses[1]>>])
    /\ HasUncoverableCourse(raw[1][1])
    /\ site[1] = "no_valid_timeslots"

\* C9: every emitted entry stores input-supplied identifiers: mapped through
\* the normalizer's id mappings they give back the selected candidate.
C9_OriginalIds ==
    \A r \in Requests :
        Solved(r) =>
            \A k \in sol[r] :
                \E e \in entries[r] :
                    LET m == Data(r).id_mappings
                    IN  /\ e.course_id \in DOMAIN m.course
                        /\ e.timeslot_id \in DOMAIN m.timeslot
                        /\ e.classroom_id \in DOMAIN m.classroom
                        /\ e.faculty_id \in DOMAIN m.faculty
                        /\ m.course[e.course_id] = k[1]
                        /\ m.timeslot[e.timeslot_id] = k[2]
                        /\ m.classroom[e.classroom_id] = k[3]
                        /\ m.faculty[e.faculty_id] = CourseToFac(Data(r), k[1])

\* C10: the handler answers 400 when generate_timetable returned False, 500
\* only when it raised, and holds the lock in neither case once it is done.
C10_StatusCodes ==
    \A r \in Requests :
        pc[r] = "done" =>
            /\ result[r] = "false" => response[r] = 400
            /\ response[r] = 500 => result[r] = "raise"
            /\ lock # r

====
